---- MODULE Spec2Model ----
(***************************************************************************)
(* Order lifecycle and inventory consistency of the storefront API:        *)
(* server/routes/orders.js (order creation with inventory decrement,       *)
(* status updates, cancellation) as a state machine over the product and   *)
(* order collections.                                                      *)
(***************************************************************************)
EXTENDS Integers, Sequences, FiniteSets, TLC

VARIABLES
    products,   \* Product collection: productId -> document
    orders,     \* Order collection: sequence of documents, _id = index
    req,        \* the request being (or last) handled
    res,        \* the response sent for it
    procs,      \* handlers suspended at an await (concurrent executions)
    overlap,    \* history: some handler started while another was suspended
    invoices,   \* Invoice collection: sequence of documents, _id = index
    clock,      \* the server's clock: the instant and the server's time zone
    issuers     \* invoice handlers suspended at an await

invoiceVars == <<invoices, clock, issuers>>

vars == <<products, orders, req, res, procs, overlap, invoices, clock, issuers>>

----------------------------------------------------------------------------
(* Bounds of the model *)

MaxStock == 2
MaxItems == 2
MaxOrders == 2
MaxLifeOrders == 1
MaxReturnOrders == 1
MaxFrameOrders == 1
MaxRaceOrders == 1
MaxTick == 2
TicksPerDay == 2

----------------------------------------------------------------------------
(* JavaScript values as the handlers read them from a JSON body.           *)
(* k is the typeof tag, v the numeric value ("str" is a numeric string).   *)

Undef == [k |-> "undef", v |-> 0]
Num(n) == [k |-> "num", v |-> n]
Str(n) == [k |-> "str", v |-> n]

\* Truthiness as `x || y` sees it: undefined and 0 are falsy, a non-empty
\* string is truthy whatever it spells.
Truthy(x) == (x.k = "num" /\ x.v # 0) \/ x.k = "str"

\* x || y
OrElse(x, y) == IF Truthy(x) THEN x ELSE y

\* Number(x) for a number or a numeric string
ToNumber(x) == x.v

\* a || b for strings ("" is falsy)
StrOr(a, b) == IF a # "" THEN a ELSE b

Digits == {"0", "1", "2", "3", "4", "5", "6", "7", "8", "9"}

\* /^\d{4,8}$/.test(String(pincode)); a pincode is a sequence of characters,
\* <<>> the empty string
PinOk(pin) == Len(pin) \in 4..8 /\ \A i \in 1..Len(pin) : pin[i] \in Digits

ALLOWED_STATUSES == {"pending", "paid", "shipped", "delivered", "cancelled"}

----------------------------------------------------------------------------
(* Users (req.user as the auth middleware sets it) *)

NoUser == [_id |-> "", role |-> "", email |-> ""]
Users == { [_id |-> "u1", role |-> "user", email |-> "u1@x"],
           [_id |-> "u2", role |-> "user", email |-> ""],
           [_id |-> "adm", role |-> "admin", email |-> "adm@x"] }

----------------------------------------------------------------------------
(* Inventory: one line item of an order against the product it names       *)

\* item.id || item.productId
ItemProductId(item) == StrOr(item.id, item.productId)

\* Number(item.qty || 1)
RequestedQty(item) == ToNumber(OrElse(item.qty, Num(1)))

\* product.sizeInventory.findIndex(s => s.code === size); 0 stands for -1
FindIndex(inv, size) ==
    IF \E i \in 1..Len(inv) : inv[i].code = size
    THEN CHOOSE i \in 1..Len(inv) :
            inv[i].code = size /\ \A j \in 1..(i - 1) : inv[j].code # size
    ELSE 0

\* A per-size product's line item without a size counter checked against
\* the scalar stock
CounterOfScalarFallback(doc, item) ==
    IF doc.trackInventoryBySize /\ item.size # ""
       /\ FindIndex(doc.sizeInventory, item.size) # 0
    THEN "size" ELSE "stock"

\* Which counter a line item is checked against: "size", "stock" or "none"
CounterOf(doc, item) ==
    IF doc.trackInventoryBySize /\ item.size # ""
    THEN IF FindIndex(doc.sizeInventory, item.size) # 0 THEN "size" ELSE "none"
    ELSE IF ~doc.trackInventoryBySize THEN "stock" ELSE "none"

\* The value of that counter in the document read by findById
CurrentQty(doc, item) ==
    CASE CounterOf(doc, item) = "size" ->
            doc.sizeInventory[FindIndex(doc.sizeInventory, item.size)].qty
      [] CounterOf(doc, item) = "stock" -> doc.stock
      [] OTHER -> 0

\* The stock check left out
InsufficientNever(doc, item) == FALSE

\* currentQty < requestedQty  /  currentStock < requestedQty
Insufficient(doc, item) ==
    CounterOf(doc, item) # "none" /\ CurrentQty(doc, item) < RequestedQty(item)

\* product.sizeInventory[sizeIdx].qty -= requestedQty  /  product.stock -= requestedQty
Decremented(doc, item) ==
    CASE CounterOf(doc, item) = "size" ->
            LET idx == FindIndex(doc.sizeInventory, item.size)
            IN  [doc EXCEPT !.sizeInventory[idx].qty = @ - RequestedQty(item)]
      [] CounterOf(doc, item) = "stock" ->
            [doc EXCEPT !.stock = @ - RequestedQty(item)]
      [] OTHER -> doc

\* Does the line item name a product of the collection?
\* (item.id || item.productId) and findById returned a document
NamesProduct(prods, item) == ItemProductId(item) \in DOMAIN prods

\* product.save() left out: the decrement never reaches the collection
SavedNot(stored, doc, item) == stored

\* product.save(): writes the paths the handler modified back to the stored
\* document, whatever the stored document holds by then.
Saved(stored, doc, item) ==
    CASE CounterOf(doc, item) = "size" ->
            LET idx == FindIndex(doc.sizeInventory, item.size)
            IN  [stored EXCEPT !.sizeInventory[idx].qty = doc.sizeInventory[idx].qty]
      [] CounterOf(doc, item) = "stock" -> [stored EXCEPT !.stock = doc.stock]
      [] OTHER -> stored

----------------------------------------------------------------------------
(* POST /orders: the synchronous part before the inventory loop            *)

NoCustomer == [name |-> "", phone |-> "", address |-> "",
               city |-> "", state |-> "", pincode |-> <<>>]

\* body.f || body.customer?.f || ''
BodyCity(body) == StrOr(body.city, body.customer.city)
BodyState(body) == StrOr(body.state, body.customer.state)
BodyPincode(body) == IF body.pincode # <<>> THEN body.pincode ELSE body.customer.pincode
BodyName(body) == StrOr(body.name, body.customer.name)
BodyPhone(body) == StrOr(body.phone, body.customer.phone)
BodyAddress(body) == StrOr(body.address, body.customer.address)

\* Validation with the pincode test left out
ValidationErrorNoPin(body) ==
    IF Len(body.items) = 0 THEN "No items"
    ELSE IF BodyCity(body) = "" \/ BodyState(body) = "" \/ BodyPincode(body) = <<>>
         THEN "City, state and pincode are required"
         ELSE ""

\* The 400 answers of lines 22-26; "" when the body passes
ValidationError(body) ==
    IF Len(body.items) = 0 THEN "No items"
    ELSE IF BodyCity(body) = "" \/ BodyState(body) = "" \/ BodyPincode(body) = <<>>
         THEN "City, state and pincode are required"
         ELSE IF ~PinOk(BodyPincode(body)) THEN "Invalid pincode"
              ELSE ""

\* items.reduce((sum, it) => sum + Number(it.price || 0) * Number(it.qty || 0), 0)
RECURSIVE Computed(_)
Computed(items) ==
    IF Len(items) = 0 THEN 0
    ELSE Computed(SubSeq(items, 1, Len(items) - 1))
         + ToNumber(OrElse(items[Len(items)].price, Num(0)))
           * ToNumber(OrElse(items[Len(items)].qty, Num(0)))

\* The total taken from the body whenever it is a number
OrderTotalAnyNumber(body) ==
    IF body.total.k = "num" THEN body.total.v ELSE Computed(body.items)

\* typeof body.total === 'number' && body.total > 0 ? body.total : computed
OrderTotal(body) ==
    IF body.total.k = "num" /\ body.total.v > 0 THEN body.total.v
    ELSE Computed(body.items)

\* The status of the body taken whenever it is a string
InitialStatusUnchecked(body) ==
    IF body.status.k = "str" THEN body.status.s ELSE "pending"

\* typeof body.status === 'string' && ALLOWED_STATUSES.includes(body.status)
InitialStatus(body) ==
    IF body.status.k = "str" /\ body.status.s \in ALLOWED_STATUSES
    THEN body.status.s ELSE "pending"

\* (body.paymentMethod || body.payment || 'COD').toString()
PaymentMethod(body) == StrOr(body.paymentMethod, StrOr(body.payment, "COD"))

NoUpi == [payerName |-> "", txnId |-> ""]

\* The fields the Order schema fills in when the handler leaves them out
OrderDefaults ==
    [returnStatus |-> "None", returnReason |-> "", cancellationReason |-> "",
     rejectionReason |-> "", trackingNumber |-> "", invoiceId |-> 0]

\* new Order({...}) of lines 90-104
NewOrder(r) ==
    [userId |-> r.user._id,
     name |-> BodyName(r.body), phone |-> BodyPhone(r.body),
     address |-> BodyAddress(r.body), paymentMethod |-> PaymentMethod(r.body),
     city |-> BodyCity(r.body), state |-> BodyState(r.body),
     pincode |-> BodyPincode(r.body),
     items |-> r.body.items, total |-> OrderTotal(r.body),
     status |-> InitialStatus(r.body),
     upi |-> IF PaymentMethod(r.body) = "UPI" /\ r.body.upi # NoUpi
             THEN r.body.upi ELSE NoUpi,
     returnStatus |-> OrderDefaults.returnStatus,
     returnReason |-> OrderDefaults.returnReason,
     cancellationReason |-> OrderDefaults.cancellationReason,
     rejectionReason |-> OrderDefaults.rejectionReason,
     trackingNumber |-> OrderDefaults.trackingNumber,
     invoiceId |-> OrderDefaults.invoiceId]

----------------------------------------------------------------------------
(* POST /orders: the inventory loop of lines 45-88, run without            *)
(* interruption.  failedAt is the index of the line item answered 409,     *)
(* 0 when the loop ran through.                                            *)

RECURSIVE ReserveFrom(_, _, _)
ReserveFrom(prods, items, i) ==
    IF i > Len(items) THEN [prods |-> prods, failedAt |-> 0, available |-> 0]
    ELSE IF ~NamesProduct(prods, items[i]) THEN ReserveFrom(prods, items, i + 1)
    ELSE LET pid == ItemProductId(items[i])
             doc == prods[pid]
         IN  IF Insufficient(doc, items[i])
             THEN [prods |-> prods, failedAt |-> i,
                   available |-> CurrentQty(doc, items[i])]
             ELSE ReserveFrom(
                    [prods EXCEPT ![pid] = Saved(@, Decremented(doc, items[i]), items[i])],
                    items, i + 1)

\* Responses: { ok, message, itemId, availableQty, data } with the status code;
\* data is the _id of the order sent back (0 for none), mails the e-mails the
\* handler sent before answering.
Response(op, code, message, itemId, availableQty, data) ==
    [op |-> op, code |-> code, message |-> message, itemId |-> itemId,
     availableQty |-> availableQty, data |-> data, mails |-> {}, failed |-> {}]

NoRes == Response("", 0, "", "", 0, 0)

\* Counters stay within what the model explores (a negative qty adds stock)
WithinCap(prods) ==
    \A p \in DOMAIN prods :
        /\ prods[p].stock <= MaxStock
        /\ \A i \in 1..Len(prods[p].sizeInventory) :
              prods[p].sizeInventory[i].qty <= MaxStock

\* router.post('/'), each await answered before any other request runs
CreateOrder(r) ==
    /\ req' = r
    /\ UNCHANGED <<procs, overlap, invoiceVars>>
    /\ IF ValidationError(r.body) # ""
       THEN /\ res' = Response("createOrder", 400, ValidationError(r.body), "", 0, 0)
            /\ UNCHANGED <<products, orders>>
       ELSE LET out == ReserveFrom(products, r.body.items, 1)
            IN  /\ WithinCap(out.prods)
                /\ products' = out.prods
                /\ IF out.failedAt # 0
                   THEN /\ res' = Response("createOrder", 409, "Insufficient stock",
                                           ItemProductId(r.body.items[out.failedAt]),
                                           out.available, 0)
                        /\ UNCHANGED orders
                   ELSE /\ Len(orders) < MaxOrders
                        /\ orders' = Append(orders, NewOrder(r))
                        /\ res' = Response("createOrder", 200, "", "", 0, Len(orders) + 1)

----------------------------------------------------------------------------
(* The collections at start-up and the requests the model sends            *)

\* p1 keeps one scalar counter, p2 one counter per size (S; M is never ordered)
InitialProducts(s1, s2) ==
    [p1 |-> [trackInventoryBySize |-> FALSE, stock |-> s1, sizeInventory |-> <<>>],
     p2 |-> [trackInventoryBySize |-> TRUE, stock |-> 0,
             sizeInventory |-> <<[code |-> "M", qty |-> MaxStock],
                                 [code |-> "S", qty |-> s2]>>]]

Item(id, size, qty, price) ==
    [id |-> id, productId |-> "", size |-> size, qty |-> qty, price |-> price]

\* Line items against the inventory: every qty shape on the scalar product,
\* sizes with and without a counter, a product that does not exist
StockItems ==
    { Item("p1", "", q, Num(1)) : q \in {Undef, Num(0), Num(1), Num(2), Num(-1)} }
    \cup { Item("p2", "S", Num(1), Num(1)), Item("p2", "S", Num(2), Num(1)),
           Item("p2", "", Num(1), Num(1)), Item("p2", "XL", Num(1), Num(1)),
           Item("p9", "", Num(1), Num(1)),
           [id |-> "", productId |-> "p1", size |-> "", qty |-> Num(1), price |-> Num(1)] }

\* Line items that name no product: every price and qty shape
PricedItems ==
    { Item("", "", q, pr) : q \in {Undef, Num(1), Num(3)}, pr \in {Undef, Num(2)} }

SeqsUpTo(S, n) == UNION { [1..k -> S] : k \in 1..n }

Body(items, city, state, pincode, total) ==
    [items |-> items, name |-> "Asha", phone |-> "98", address |-> "1 Road",
     city |-> city, state |-> state, pincode |-> pincode, customer |-> NoCustomer,
     total |-> total, status |-> [k |-> "undef", s |-> ""],
     paymentMethod |-> "", payment |-> "", upi |-> NoUpi]

GoodPin == <<"4", "1", "1", "0">>

StockBodies ==
    { Body(items, "Pune", "MH", GoodPin, Undef) : items \in SeqsUpTo(StockItems, MaxItems) }

TotalBodies ==
    { Body(items, "Pune", "MH", GoodPin, t) :
        items \in SeqsUpTo(PricedItems, MaxItems),
        t \in {Undef, Num(0), Num(-1), Num(5), Str(5)} }

Pincodes ==
    { <<>>, <<"1", "2", "3">>, GoodPin, <<"1", "2", "a", "4">>,
      <<"1", "2", "3", "4", "5", "6", "7", "8">>,
      <<"1", "2", "3", "4", "5", "6", "7", "8", "9">> }

\* Bodies around the validation: each would reserve stock if it passed
ValidationBodies ==
    { Body(items, c, st, pin, Undef) :
        items \in {<<>>, <<Item("p1", "", Num(1), Num(1))>>},
        c \in {"", "Pune"}, st \in {"", "MH"}, pin \in Pincodes }
    \cup { [Body(<<Item("p1", "", Num(1), Num(1))>>, "", "", <<>>, Undef)
              EXCEPT !.customer = [NoCustomer EXCEPT !.city = "Pune", !.state = "MH",
                                                     !.pincode = pin]] :
           pin \in Pincodes }

\* What the routes other than POST /orders read from req.body
Args(status, trackingNumber, returnStatus, reason) ==
    [status |-> status, trackingNumber |-> trackingNumber,
     returnStatus |-> returnStatus, reason |-> reason]

NoArgs == Args("", "", "", "")

NoBody == Body(<<>>, "", "", <<>>, Undef)

\* A request: the route, req.user, req.params.id and req.body
Request(op, user, id, body, args) ==
    [op |-> op, user |-> user, id |-> id, body |-> body, args |-> args]

CreateRequest(user, body) == Request("createOrder", user, 0, body, NoArgs)

NoReq == Request("", NoUser, 0, NoBody, NoArgs)

User(id) == CHOOSE u \in Users : u._id = id

\* Bodies with every shape of status: none, each allowed text, other texts,
\* a number
StatusBodies ==
    { [Body(<<Item("p1", "", Num(1), Num(1))>>, "Pune", "MH", GoodPin, Undef)
         EXCEPT !.status = st] :
        st \in { [k |-> "undef", s |-> ""], [k |-> "num", s |-> ""] }
               \cup { [k |-> "str", s |-> t] :
                        t \in ALLOWED_STATUSES \cup {"", "refunded", "Paid"} } }

OneRequests ==
    { CreateRequest(User("u1"), b) :
        b \in StockBodies \cup TotalBodies \cup ValidationBodies \cup StatusBodies }

ProcIds == {"a", "b"}

IdleProc == [pc |-> "idle", r |-> NoReq, i |-> 0,
             doc |-> InitialProducts(0, 0).p1]

\* An invoice handler that is not running
IdleIssuer == [pc |-> "idle", r |-> NoReq, now |-> 0, countToday |-> 0,
               issuedAt |-> 0, invoiceId |-> 0]

\* No invoice issued yet; the server runs in the time zone `zone`
InitIn(s1, s2, zone) ==
    /\ products = InitialProducts(s1, s2)
    /\ orders = <<>>
    /\ req = NoReq
    /\ res = NoRes
    /\ procs = [p \in ProcIds |-> IdleProc]
    /\ overlap = FALSE
    /\ invoices = <<>>
    /\ clock = [tick |-> 0, zone |-> zone]
    /\ issuers = [p \in ProcIds |-> IdleIssuer]

InitWith(s1, s2) == InitIn(s1, s2, 0)

Init == \E s1 \in 0..MaxStock, s2 \in 0..MaxStock : InitWith(s1, s2)

----------------------------------------------------------------------------
(* One POST /orders request against any inventory *)

NextCreate == res = NoRes /\ \E r \in OneRequests : CreateOrder(r)

SpecCreate == Init /\ [][NextCreate]_vars

----------------------------------------------------------------------------
(* Properties of one POST /orders request *)

\* The counters of the inventory: <<product, size code>>, "" for the scalar one
CounterKeys == {<<"p1", "">>, <<"p2", "M">>, <<"p2", "S">>}

CounterValue(prods, key) ==
    IF key[2] = "" THEN prods[key[1]].stock
    ELSE LET inv == prods[key[1]].sizeInventory
         IN  inv[CHOOSE i \in 1..Len(inv) : inv[i].code = key[2]].qty

\* The counter a line item is checked against, <<"", "">> when there is none
KeyOf(prods, item) ==
    IF ~NamesProduct(prods, item) THEN <<"", "">>
    ELSE LET pid == ItemProductId(item)
         IN  IF prods[pid].trackInventoryBySize
             THEN IF <<pid, item.size>> \in CounterKeys /\ item.size # ""
                  THEN <<pid, item.size>> ELSE <<"", "">>
             ELSE <<pid, "">>

\* The qty field as sent: a missing qty is 0 units
QtyField(item) == IF item.qty.k = "undef" THEN 0 ELSE item.qty.v
PriceField(item) == IF item.price.k = "undef" THEN 0 ELSE item.price.v

\* Units the loop takes for a line item: a qty of 0 or none is one unit
UnitsTaken(item) == IF QtyField(item) = 0 THEN 1 ELSE QtyField(item)

RECURSIVE SumUnits(_, _, _, _)
SumUnits(prods, items, n, key) ==
    IF n = 0 THEN 0
    ELSE SumUnits(prods, items, n - 1, key)
         + (IF KeyOf(prods, items[n]) = key THEN UnitsTaken(items[n]) ELSE 0)

RECURSIVE SumQtyField(_, _, _, _)
SumQtyField(prods, items, n, key) ==
    IF n = 0 THEN 0
    ELSE SumQtyField(prods, items, n - 1, key)
         + (IF KeyOf(prods, items[n]) = key THEN QtyField(items[n]) ELSE 0)

RECURSIVE SumPriceQty(_, _)
SumPriceQty(items, n) ==
    IF n = 0 THEN 0
    ELSE SumPriceQty(items, n - 1) + PriceField(items[n]) * QtyField(items[n])

\* The step just taken answered a createOrder request with this code
Answered(code) == res'.op = "createOrder" /\ res'.code = code

\* The line item the 409 of the step just taken is about
FailedIndex == ReserveFrom(products, req'.body.items, 1).failedAt

\* C3 (as claimed): a createOrder answered 409 persists no order and leaves the
\* counter of the failing line item as it was before the request.
C3_FailingCounterAsBefore ==
    [][Answered(409) =>
        /\ orders' = orders
        /\ LET key == KeyOf(products, req'.body.items[FailedIndex])
           IN  CounterValue(products', key) = CounterValue(products, key)]_vars

\* C4 (as claimed): a createOrder answered 409 has changed no stock counter.
C4_RejectionChangesNoCounter ==
    [][Answered(409) =>
        \A key \in CounterKeys :
            CounterValue(products', key) = CounterValue(products, key)]_vars

\* C5: after a createOrder answered 409 at line item k, every counter is its
\* value before the request minus the units of the line items 1..k-1 checked
\* against it (no rollback), and the line items from k on took nothing.
C5_EarlierItemsStayDecremented ==
    [][Answered(409) =>
        \A key \in CounterKeys :
            CounterValue(products', key) =
                CounterValue(products, key)
                - SumUnits(products, req'.body.items, FailedIndex - 1, key)]_vars

\* C5 witness: a 409 at the second line item after the first one took stock
C5_Witness ==
    /\ res.op = "createOrder" /\ res.code = 409
    /\ res.itemId = "p1"
    /\ Len(req.body.items) = 2
    /\ req.body.items[1] = Item("p2", "S", Num(1), Num(1))
    /\ req.body.items[2] = Item("p1", "", Num(2), Num(1))
    /\ CounterValue(products, <<"p2", "S">>) = 0
    /\ products.p1.stock = 1
    /\ orders = <<>>

\* C6 (as claimed): after a successful createOrder the scalar stock of a product
\* is its stock before minus the sum of the qty fields of the line items
\* naming it.
C6_StockMinusSumOfQty ==
    [][Answered(200) =>
        products'.p1.stock =
            products.p1.stock
            - SumQtyField(products, req'.body.items, Len(req'.body.items),
                          <<"p1", "">>)]_vars

\* C7: the total stored on a created order is the request's total when that is
\* a number above 0, and the sum of price * qty over the line items otherwise.
C7_TotalComputedUnlessPositive ==
    (res.op = "createOrder" /\ res.code = 200) =>
        orders[res.data].total =
            IF req.body.total.k = "num" /\ req.body.total.v >= 1
            THEN req.body.total.v
            ELSE SumPriceQty(req.body.items, Len(req.body.items))

\* C7 witness: a negative total was sent and the order stores 3*2 + 1*2
C7_Witness ==
    /\ res.op = "createOrder" /\ res.code = 200
    /\ req.body.total = Num(-1)
    /\ orders[res.data].total = 8

\* What C8 calls an invalid request
InvalidRequest(body) ==
    \/ body.items = <<>>
    \/ BodyCity(body) = ""
    \/ BodyState(body) = ""
    \/ Len(BodyPincode(body)) < 4
    \/ Len(BodyPincode(body)) > 8
    \/ \E i \in 1..Len(BodyPincode(body)) : BodyPincode(body)[i] \notin Digits

\* C8: a createOrder request with no items, without city, state or pincode, or
\* with a pincode that is not 4 to 8 digits is answered 400, persists no order
\* and changes no stock counter.
C8_InvalidRequestChangesNothing ==
    [][(req'.op = "createOrder" /\ res' # NoRes /\ InvalidRequest(req'.body)) =>
        /\ res'.code = 400
        /\ orders' = orders
        /\ products' = products]_vars

\* C8 witness: a 9-digit pincode on an order that names a product in stock
C8_Witness ==
    /\ res.op = "createOrder" /\ res.code = 400 /\ res.message = "Invalid pincode"
    /\ Len(BodyPincode(req.body)) = 9
    /\ Len(req.body.items) = 1
    /\ products.p1.stock = MaxStock
    /\ orders = <<>>

----------------------------------------------------------------------------
(* Sequences of POST /orders requests, one at a time *)

SeqItemLists ==
    { <<it>> : it \in { Item("p1", "", q, Num(1)) :
                          q \in {Undef, Num(0), Num(1), Num(2), Num(-1)} }
                      \cup { Item("p2", "S", Num(1), Num(1)),
                             Item("p2", "S", Num(2), Num(1)) } }
    \cup { <<Item("p1", "", Num(1), Num(1)), Item("p1", "", Num(2), Num(1))>>,
           <<Item("p2", "S", Num(1), Num(1)), Item("p1", "", Num(2), Num(1))>> }

SeqRequests ==
    { CreateRequest(User("u1"), Body(items, "Pune", "MH", GoodPin, Undef)) :
        items \in SeqItemLists }

NextStock == \E r \in SeqRequests : CreateOrder(r)

SpecStock == Init /\ [][NextStock]_vars

\* C1: after any sequence of createOrder requests, each run to completion
\* before the next starts, every scalar and per-size stock counter is >= 0.
C1_StockNeverNegative ==
    \A key \in CounterKeys : CounterValue(products, key) >= 0

\* C1 witness: two orders were persisted, the scalar stock is used up and a
\* further request for it was answered 409
C1_Witness ==
    /\ Len(orders) = 2
    /\ products.p1.stock = 0
    /\ res.op = "createOrder" /\ res.code = 409 /\ res.itemId = "p1"

----------------------------------------------------------------------------
(* POST /orders handlers that interleave at their awaits:                  *)
(* findById, product.save and doc.save each resolve in a later step.       *)

\* The next line item from i on that reaches `await Product.findById`
\* (one with an id); 0 when the loop ends first
NextAwait(items, i) ==
    IF \E j \in i..Len(items) : ItemProductId(items[j]) # ""
    THEN CHOOSE j \in i..Len(items) :
            /\ ItemProductId(items[j]) # ""
            /\ \A h \in i..(j - 1) : ItemProductId(items[h]) = ""
    ELSE 0

\* The handler suspended at the await it reaches from line item i on
Suspended(proc, r, i) ==
    [proc EXCEPT !.pc = IF NextAwait(r.body.items, i) = 0 THEN "insert" ELSE "find",
                 !.r = r, !.i = NextAwait(r.body.items, i)]

\* Lines 13-48: validation, then the first await
CreateBegin(p, r) ==
    /\ procs[p].pc = "idle"
    /\ overlap' = (overlap \/ \E q \in ProcIds \ {p} : procs[q].pc # "idle")
    /\ UNCHANGED <<products, orders, invoiceVars>>
    /\ IF ValidationError(r.body) # ""
       THEN /\ req' = r
            /\ res' = Response("createOrder", 400, ValidationError(r.body), "", 0, 0)
            /\ UNCHANGED procs
       ELSE /\ procs' = [procs EXCEPT ![p] = Suspended(IdleProc, r, 1)]
            /\ UNCHANGED <<req, res>>

\* findById resolves: lines 49-68 and 71-83 up to the next await or the 409
CreateFind(p) ==
    LET me == procs[p]
        item == me.r.body.items[me.i]
    IN  /\ me.pc = "find"
        /\ UNCHANGED <<products, orders, overlap, invoiceVars>>
        /\ IF ~NamesProduct(products, item)
           THEN /\ procs' = [procs EXCEPT ![p] = Suspended(me, me.r, me.i + 1)]
                /\ UNCHANGED <<req, res>>
           ELSE LET doc == products[ItemProductId(item)]
                IN  IF Insufficient(doc, item)
                    THEN /\ req' = me.r
                         /\ res' = Response("createOrder", 409, "Insufficient stock",
                                            ItemProductId(item), CurrentQty(doc, item), 0)
                         /\ procs' = [procs EXCEPT ![p] = IdleProc]
                    ELSE /\ UNCHANGED <<req, res>>
                         /\ procs' = [procs EXCEPT ![p] =
                                IF CounterOf(doc, item) = "none"
                                THEN Suspended(me, me.r, me.i + 1)
                                ELSE [me EXCEPT !.pc = "save",
                                                !.doc = Decremented(doc, item)]]

\* product.save() resolves (lines 69, 84); the loop goes on to the next await
CreateSave(p) ==
    LET me == procs[p]
        item == me.r.body.items[me.i]
        pid == ItemProductId(item)
    IN  /\ me.pc = "save"
        /\ products' = [products EXCEPT ![pid] = Saved(@, me.doc, item)]
        /\ WithinCap(products')
        /\ procs' = [procs EXCEPT ![p] = Suspended([me EXCEPT !.doc = IdleProc.doc],
                                                   me.r, me.i + 1)]
        /\ UNCHANGED <<orders, req, res, overlap, invoiceVars>>

\* doc.save() resolves and the handler answers (lines 90-107)
CreateInsert(p) ==
    LET me == procs[p]
    IN  /\ me.pc = "insert"
        /\ Len(orders) < MaxOrders
        /\ orders' = Append(orders, NewOrder(me.r))
        /\ req' = me.r
        /\ res' = Response("createOrder", 200, "", "", 0, Len(orders) + 1)
        /\ procs' = [procs EXCEPT ![p] = IdleProc]
        /\ UNCHANGED <<products, overlap, invoiceVars>>

RaceRequests ==
    { CreateRequest(User("u1"), Body(items, "Pune", "MH", GoodPin, Undef)) :
        items \in { <<Item("p1", "", Num(1), Num(1))>>,
                    <<Item("p1", "", Num(2), Num(1))>>,
                    <<Item("p2", "S", Num(1), Num(1)), Item("p1", "", Num(2), Num(1))>> } }

InitRace == InitWith(MaxStock, MaxStock)

NextRace ==
    \E p \in ProcIds :
        \/ \E r \in RaceRequests : CreateBegin(p, r)
        \/ CreateFind(p)
        \/ CreateSave(p)
        \/ CreateInsert(p)

SpecRace == InitRace /\ [][NextRace]_vars

\* Units of a counter that the persisted orders carry
RECURSIVE UnitsSold(_, _)
UnitsSold(n, key) ==
    IF n = 0 THEN 0
    ELSE UnitsSold(n - 1, key)
         + SumUnits(products, orders[n].items, Len(orders[n].items), key)

\* More units of the scalar product are on persisted orders than it had in stock
Oversold == UnitsSold(Len(orders), <<"p1", "">>) > MaxStock

\* C2: two createOrder requests for the same scalar-stock product that
\* interleave at their awaits can both pass the stock check and both be
\* persisted although their quantities exceed the stock: persisted orders
\* exceed the stock only in executions where handlers interleaved.
C2_OversellOnlyWhenInterleaved == Oversold => overlap

\* C2 witness: both orders of 2 units are persisted against a stock of 2
C2_Witness ==
    /\ Len(orders) = 2
    /\ \A n \in 1..2 : orders[n].items = <<Item("p1", "", Num(2), Num(1))>>
    /\ products.p1.stock = 0
    /\ \A p \in ProcIds : procs[p].pc = "idle"
    /\ Oversold

----------------------------------------------------------------------------
(* Status updates and cancellation *)

\* requireAuth / requireAdmin in front of a handler: the status code they
\* answer with, 0 when the handler runs
AuthError(user, adminOnly) ==
    IF user = NoUser THEN 401
    ELSE IF adminOnly /\ user.role # "admin" THEN 403 ELSE 0

\* Order.findById(id): does the collection hold the order?
Found(id) == id \in 1..Len(orders)

\* .populate('userId'): the user document of the order's userId, NoUser for none
Populated(order) ==
    IF \E u \in Users : u._id = order.userId THEN User(order.userId) ELSE NoUser

\* sendStatusUpdateEmail as lines 177-182 and 339-344 call it
StatusMails(order, id, status, previousStatus) ==
    IF /\ status # previousStatus
       /\ Populated(order).email # ""
       /\ status \in {"shipped", "delivered"}
    THEN {[kind |-> "statusUpdate", to |-> Populated(order).email,
           order |-> id, status |-> status]}
    ELSE {}

\* The membership test left out
IsAllowedStatusAny(status) == TRUE

\* A status update that may not set cancelled
IsAllowedStatusNotCancelled(status) == status \in ALLOWED_STATUSES \ {"cancelled"}

\* ALLOWED_STATUSES.includes(status)
IsAllowedStatus(status) == status \in ALLOWED_STATUSES

Answer(r, response) ==
    /\ req' = r
    /\ res' = response
    /\ UNCHANGED <<products, procs, overlap, invoiceVars>>

\* The handler looking at the outcome of the send, as POST /:id/email does
AfterSendChecked(response, mails, sent) ==
    IF sent \/ mails = {}
    THEN [response EXCEPT !.mails = mails]
    ELSE [response EXCEPT !.code = 500, !.message = "Server error", !.data = 0,
                          !.mails = mails, !.failed = mails]

\* await sendStatusUpdateEmail(...) / sendReturnApprovalEmail(...): the
\* handler awaits the send and does not read its outcome (lines 180, 342,
\* 349, 571, 599); `failed` records the e-mails that were not delivered
AfterSend(response, mails, sent) ==
    [response EXCEPT !.mails = mails, !.failed = IF sent THEN {} ELSE mails]

\* The e-mail service delivers or fails, then the handler answers
AnswerSending(r, response, mails) ==
    \E sent \in BOOLEAN : Answer(r, AfterSend(response, mails, sent))

\* router.put('/:id/status')
SetStatus(r) ==
    LET status == r.args.status
        denied == AuthError(r.user, TRUE)
    IN  IF denied # 0
        THEN Answer(r, Response("setStatus", denied, "Forbidden", "", 0, 0))
             /\ UNCHANGED orders
        ELSE IF status = ""
        THEN Answer(r, Response("setStatus", 400, "Missing status", "", 0, 0))
             /\ UNCHANGED orders
        ELSE IF ~IsAllowedStatus(status)
        THEN Answer(r, Response("setStatus", 400, "Invalid status", "", 0, 0))
             /\ UNCHANGED orders
        ELSE IF ~Found(r.id)
        THEN Answer(r, Response("setStatus", 404, "Not found", "", 0, 0))
             /\ UNCHANGED orders
        ELSE /\ orders' = [orders EXCEPT ![r.id].status = status]
             /\ AnswerSending(r, Response("setStatus", 200, "", "", 0, r.id),
                                   StatusMails(orders[r.id], r.id, status, orders[r.id].status))

\* const map = { processing: 'paid', completed: 'delivered' }; map[status] || status
Alias(status) ==
    CASE status = "processing" -> "paid"
      [] status = "completed" -> "delivered"
      [] OTHER -> status

\* findByIdAndUpdate given a whole replacement document instead of { status }
PutOrderOverwriting(r) ==
    IF /\ AuthError(r.user, TRUE) = 0
       /\ IsAllowedStatus(Alias(r.args.status))
       /\ Found(r.id)
    THEN /\ orders' = [orders EXCEPT ![r.id].status = Alias(r.args.status),
                                     ![r.id].items = <<>>,
                                     ![r.id].total = 0]
         /\ Answer(r, Response("putOrder", 200, "", "", 0, r.id))
    ELSE /\ Answer(r, Response("putOrder", 400, "Invalid status", "", 0, 0))
         /\ UNCHANGED orders

\* router.put('/:id')
PutOrder(r) ==
    LET status == Alias(r.args.status)
        denied == AuthError(r.user, TRUE)
    IN  IF denied # 0
        THEN Answer(r, Response("putOrder", denied, "Forbidden", "", 0, 0))
             /\ UNCHANGED orders
        ELSE IF r.args.status = ""
        THEN Answer(r, Response("putOrder", 400, "Missing status", "", 0, 0))
             /\ UNCHANGED orders
        ELSE IF ~IsAllowedStatus(status)
        THEN Answer(r, Response("putOrder", 400, "Invalid status", "", 0, 0))
             /\ UNCHANGED orders
        ELSE IF ~Found(r.id)
        THEN Answer(r, Response("putOrder", 404, "Not found", "", 0, 0))
             /\ UNCHANGED orders
        ELSE /\ orders' = [orders EXCEPT ![r.id].status = status]
             /\ Answer(r, Response("putOrder", 200, "", "", 0, r.id))

\* trackingNumber.trim()
Trim(text) ==
    CASE text = " T1 " -> "T1"
      [] text = " damaged " -> "damaged"
      [] text = "  " -> ""
      [] OTHER -> text

\* router.put('/:id/admin-update')
AdminUpdate(r) ==
    LET a == r.args
        denied == AuthError(r.user, TRUE)
    IN  IF denied # 0
        THEN Answer(r, Response("adminUpdate", denied, "Forbidden", "", 0, 0))
             /\ UNCHANGED orders
        ELSE IF ~Found(r.id)
        THEN Answer(r, Response("adminUpdate", 404, "Order not found", "", 0, 0))
             /\ UNCHANGED orders
        ELSE LET order == orders[r.id]
                 updated ==
                    [order EXCEPT
                       !.status = IF a.status # "" /\ IsAllowedStatus(a.status)
                                  THEN a.status ELSE @,
                       !.trackingNumber = IF a.trackingNumber # ""
                                          THEN Trim(a.trackingNumber) ELSE @,
                       !.returnStatus =
                            IF a.returnStatus \in {"None", "Pending", "Approved", "Rejected"}
                            THEN a.returnStatus ELSE @]
                 statusMails ==
                    IF a.status # "" THEN StatusMails(order, r.id, a.status, order.status)
                    ELSE {}
                 returnMails ==
                    IF /\ a.returnStatus = "Approved"
                       /\ updated.returnStatus = "Approved"
                       /\ Populated(order).email # ""
                    THEN {[kind |-> "returnApproval", to |-> Populated(order).email,
                           order |-> r.id, status |-> "Approved"]}
                    ELSE {}
             IN  /\ orders' = [orders EXCEPT ![r.id] = updated]
                 /\ AnswerSending(r, Response("adminUpdate", 200, "Order updated successfully", "", 0, r.id),
                                   statusMails \cup returnMails)

\* Every status counted as cancellable
IsCancellableAny(status) == TRUE

\* cancellableStatuses.includes(order.status)
IsCancellable(status) == status \in {"pending", "cod_pending", "pending_verification"}

\* The ownership test left out
NotOwnerNorAdminNever(order, user) == FALSE

\* String(order.userId) !== String(req.user._id) && req.user.role !== 'admin'
NotOwnerNorAdmin(order, user) == order.userId # user._id /\ user.role # "admin"

\* A cancel that puts the unit of the order back on the shelf
CancelRestocking(r) ==
    /\ req' = r
    /\ UNCHANGED <<procs, overlap, invoiceVars>>
    /\ IF /\ AuthError(r.user, FALSE) = 0
          /\ Found(r.id)
          /\ ~NotOwnerNorAdmin(orders[r.id], r.user)
          /\ IsCancellable(orders[r.id].status)
       THEN /\ orders' = [orders EXCEPT ![r.id].status = "cancelled"]
            /\ products' = [products EXCEPT !.p1.stock = @ + 1]
            /\ res' = Response("cancel", 200, "", "", 0, r.id)
       ELSE /\ res' = Response("cancel", 400,
                               "Order cannot be cancelled in current status", "", 0, 0)
            /\ UNCHANGED <<orders, products>>

\* router.post('/:id/cancel')
Cancel(r) ==
    LET denied == AuthError(r.user, FALSE)
    IN  IF denied # 0
        THEN Answer(r, Response("cancel", denied, "Unauthorized", "", 0, 0))
             /\ UNCHANGED orders
        ELSE IF ~Found(r.id)
        THEN Answer(r, Response("cancel", 404, "Order not found", "", 0, 0))
             /\ UNCHANGED orders
        ELSE IF NotOwnerNorAdmin(orders[r.id], r.user)
        THEN Answer(r, Response("cancel", 403, "Forbidden", "", 0, 0))
             /\ UNCHANGED orders
        ELSE IF ~IsCancellable(orders[r.id].status)
        THEN Answer(r, Response("cancel", 400,
                                "Order cannot be cancelled in current status", "", 0, 0))
             /\ UNCHANGED orders
        ELSE /\ orders' = [orders EXCEPT
                             ![r.id].status = "cancelled",
                             ![r.id].cancellationReason =
                                 IF r.args.reason # "" THEN r.args.reason ELSE @]
             /\ Answer(r, Response("cancel", 200, "", "", 0, r.id))

----------------------------------------------------------------------------
(* Return requests *)

\* The delivered test left out
NotDeliveredNever(order) == FALSE

\* order.status !== 'delivered'
NotDelivered(order) == order.status # "delivered"

\* router.post('/:id/request-return')
RequestReturn(r) ==
    LET reason == r.args.reason
        denied == AuthError(r.user, FALSE)
    IN  IF denied # 0
        THEN Answer(r, Response("requestReturn", denied, "Unauthorized", "", 0, 0))
             /\ UNCHANGED orders
        ELSE IF reason = "" \/ Trim(reason) = ""
        THEN Answer(r, Response("requestReturn", 400, "Return reason is required", "", 0, 0))
             /\ UNCHANGED orders
        ELSE IF ~Found(r.id)
        THEN Answer(r, Response("requestReturn", 404, "Order not found", "", 0, 0))
             /\ UNCHANGED orders
        ELSE IF orders[r.id].userId # r.user._id
        THEN Answer(r, Response("requestReturn", 403, "Forbidden", "", 0, 0))
             /\ UNCHANGED orders
        ELSE IF NotDelivered(orders[r.id])
        THEN Answer(r, Response("requestReturn", 400,
                                "Return can only be requested for delivered orders",
                                "", 0, 0))
             /\ UNCHANGED orders
        ELSE /\ orders' = [orders EXCEPT ![r.id].returnReason = Trim(reason),
                                         ![r.id].returnStatus = "Pending"]
             /\ Answer(r, Response("requestReturn", 200, "Return request submitted",
                                   "", 0, r.id))

\* sendReturnApprovalEmail as lines 570-572 and 598-600 call it
ReturnMails(order, id, outcome, reason) ==
    IF Populated(order).email # ""
    THEN {[kind |-> "returnApproval", to |-> Populated(order).email,
           order |-> id, status |-> outcome, reason |-> reason]}
    ELSE {}

\* The pending test left out
NotPendingNever(order) == FALSE

\* order.returnStatus !== 'Pending'
NotPending(order) == order.returnStatus # "Pending"

\* router.post('/:id/approve-return')
ApproveReturn(r) ==
    LET denied == AuthError(r.user, TRUE)
    IN  IF denied # 0
        THEN Answer(r, Response("approveReturn", denied, "Forbidden", "", 0, 0))
             /\ UNCHANGED orders
        ELSE IF ~Found(r.id)
        THEN Answer(r, Response("approveReturn", 404, "Order not found", "", 0, 0))
             /\ UNCHANGED orders
        ELSE IF NotPending(orders[r.id])
        THEN Answer(r, Response("approveReturn", 400, "Return request is not pending",
                                "", 0, 0))
             /\ UNCHANGED orders
        ELSE /\ orders' = [orders EXCEPT ![r.id].returnStatus = "Approved"]
             /\ AnswerSending(r, Response("approveReturn", 200, "Return request approved", "", 0, r.id),
                                   ReturnMails(orders[r.id], r.id, "Approved", ""))

\* router.post('/:id/reject-return')
RejectReturn(r) ==
    LET reason == r.args.reason
        denied == AuthError(r.user, TRUE)
    IN  IF denied # 0
        THEN Answer(r, Response("rejectReturn", denied, "Forbidden", "", 0, 0))
             /\ UNCHANGED orders
        ELSE IF ~Found(r.id)
        THEN Answer(r, Response("rejectReturn", 404, "Order not found", "", 0, 0))
             /\ UNCHANGED orders
        ELSE IF NotPending(orders[r.id])
        THEN Answer(r, Response("rejectReturn", 400, "Return request is not pending",
                                "", 0, 0))
             /\ UNCHANGED orders
        ELSE /\ orders' = [orders EXCEPT
                             ![r.id].returnStatus = "Rejected",
                             ![r.id].rejectionReason = IF reason # "" THEN reason ELSE @]
             /\ AnswerSending(r, Response("rejectReturn", 200, "Return request rejected", "", 0, r.id),
                                   ReturnMails(orders[r.id], r.id, "Rejected", reason))

----------------------------------------------------------------------------
(* The order lifecycle: requests of every route, one at a time *)

StatusInputs == ALLOWED_STATUSES \cup {"", "processing", "completed", "refunded"}

\* The orders of the collection, and an id that is not there
IdsHeld == 1..Len(orders)
IdMissing == Len(orders) + 1

LifeCreateRequests ==
    { CreateRequest(u, [Body(<<Item("p1", "", Num(1), Num(1))>>, "Pune", "MH", GoodPin, Undef)
                          EXCEPT !.status = st]) :
        u \in {NoUser, User("u1")},
        st \in { [k |-> "undef", s |-> ""], [k |-> "str", s |-> "paid"],
                 [k |-> "str", s |-> "refunded"] } }

\* An admin with every status input, a customer trying one, an order not there
StatusRequests(op) ==
    { Request(op, User("adm"), id, NoBody, Args(st, "", "", "")) :
        id \in IdsHeld, st \in StatusInputs }
    \cup { Request(op, User("u1"), id, NoBody, Args("shipped", "", "", "")) :
             id \in IdsHeld }
    \cup { Request(op, User("adm"), IdMissing, NoBody, Args(st, "", "", "")) :
             st \in {"shipped", "refunded"} }

AdminUpdateRequests ==
    { Request("adminUpdate", User("adm"), id, NoBody, a) :
        id \in IdsHeld,
        a \in { Args("shipped", "", "", ""), Args("delivered", " T1 ", "Approved", ""),
                Args("refunded", "", "Lost", ""), Args("", "", "", "") } }
    \cup { Request("adminUpdate", User("u1"), id, NoBody, Args("shipped", "", "", "")) :
             id \in IdsHeld }
    \cup { Request("adminUpdate", User("adm"), IdMissing, NoBody,
                   Args("shipped", "", "", "")) }

CancelRequests ==
    { Request("cancel", u, id, NoBody, Args("", "", "", reason)) :
        u \in Users \cup {NoUser}, id \in IdsHeld, reason \in {"", "late"} }
    \cup { Request("cancel", User("adm"), IdMissing, NoBody, NoArgs) }

Next ==
    \/ Len(orders) < MaxLifeOrders /\ \E r \in LifeCreateRequests : CreateOrder(r)
    \/ \E r \in StatusRequests("setStatus") : SetStatus(r)
    \/ \E r \in StatusRequests("putOrder") : PutOrder(r)
    \/ \E r \in AdminUpdateRequests : AdminUpdate(r)
    \/ \E r \in CancelRequests : Cancel(r)

Spec == InitRace /\ [][Next]_vars

----------------------------------------------------------------------------
(* Properties of the order lifecycle *)

\* C9: after any sequence of createOrder, status-update, admin-update and
\* cancel requests every order's status is one of pending, paid, shipped,
\* delivered, cancelled; an admin's PUT /orders/:id/status whose status is
\* outside this set is answered 400 (Invalid status, or Missing status when
\* none is sent) and leaves the orders unchanged.
C9_StatusStaysAllowed ==
    [][/\ \A n \in 1..Len(orders') :
            orders'[n].status \in {"pending", "paid", "shipped", "delivered", "cancelled"}
       /\ ( /\ req'.op = "setStatus"
            /\ req'.user.role = "admin"
            /\ req'.args.status \notin
                    {"pending", "paid", "shipped", "delivered", "cancelled"} )
          => /\ res'.code = 400
             /\ res'.message = IF req'.args.status = "" THEN "Missing status"
                               ELSE "Invalid status"
             /\ orders' = orders]_vars

\* C9 witness: an admin asked for the status refunded on a shipped order
C9_Witness ==
    /\ req.op = "setStatus" /\ req.user.role = "admin"
    /\ req.args.status = "refunded"
    /\ res.code = 400 /\ res.message = "Invalid status"
    /\ req.id \in 1..Len(orders)
    /\ orders[req.id].status = "shipped"

\* The actor may cancel the order: its owning user or an admin
MayCancel(user, order) ==
    user # NoUser /\ (user._id = order.userId \/ user.role = "admin")

\* C10: a cancel request on an existing order succeeds only when the order's
\* status is pending, cod_pending or pending_verification; with any other
\* status it changes nothing (status and cancellation reason stay) and the
\* owner or an admin is answered 400.
C10_CancelOnlyWhenCancellable ==
    [][(req'.op = "cancel" /\ req'.id \in 1..Len(orders)) =>
        LET before == orders[req'.id]
            after == orders'[req'.id]
            cancellable ==
                before.status \in {"pending", "cod_pending", "pending_verification"}
        IN  /\ res'.code = 200 => (cancellable /\ after.status = "cancelled")
            /\ ~cancellable =>
                /\ orders' = orders
                /\ MayCancel(req'.user, before) => res'.code = 400]_vars

\* C10 witness: the owner asked to cancel a shipped order, giving a reason
C10_Witness ==
    /\ req.op = "cancel" /\ req.user = User("u1") /\ req.args.reason = "late"
    /\ res.code = 400
    /\ req.id \in 1..Len(orders)
    /\ orders[req.id].userId = "u1"
    /\ orders[req.id].status = "shipped"
    /\ orders[req.id].cancellationReason = ""

\* C11: cancel changes an order only when the actor is the order's owning
\* user or an admin; any other authenticated actor is answered 403 Forbidden
\* and the orders are unchanged, whatever the order's status.
C11_CancelOnlyByOwnerOrAdmin ==
    [][(req'.op = "cancel" /\ req'.id \in 1..Len(orders)) =>
        LET before == orders[req'.id]
        IN  /\ orders' # orders => MayCancel(req'.user, before)
            /\ (req'.user # NoUser /\ ~MayCancel(req'.user, before)) =>
                   (res'.code = 403 /\ res'.message = "Forbidden" /\ orders' = orders)]_vars

\* C11 witness: another customer asked to cancel a pending order of u1
C11_Witness ==
    /\ req.op = "cancel" /\ req.user = User("u2")
    /\ res.code = 403
    /\ req.id \in 1..Len(orders)
    /\ orders[req.id].userId = "u1"
    /\ orders[req.id].status = "pending"

----------------------------------------------------------------------------
(* Returns: orders that are created, delivered, returned, one request at a time *)

ReturnCreateRequests ==
    { CreateRequest(u, Body(<<Item("p1", "", Num(1), Num(1))>>, "Pune", "MH", GoodPin, Undef)) :
        u \in {NoUser, User("u1")} }

ReturnStatusRequests ==
    { Request("setStatus", User("adm"), id, NoBody, Args(st, "", "", "")) :
        id \in IdsHeld, st \in {"shipped", "delivered"} }

ReturnAdminUpdateRequests ==
    { Request("adminUpdate", User("adm"), id, NoBody, a) :
        id \in IdsHeld,
        a \in { Args("", "", "Approved", ""), Args("", "", "None", ""),
                Args("delivered", "", "Lost", "") } }

ReturnCancelRequests ==
    { Request("cancel", User("u1"), id, NoBody, NoArgs) : id \in IdsHeld }

RequestReturnRequests ==
    { Request("requestReturn", User("u1"), id, NoBody, Args("", "", "", reason)) :
        id \in IdsHeld, reason \in {"", "  ", " damaged "} }
    \cup { Request("requestReturn", u, id, NoBody, Args("", "", "", " damaged ")) :
             id \in IdsHeld, u \in {User("u2"), User("adm"), NoUser} }
    \cup { Request("requestReturn", User("u1"), IdMissing, NoBody,
                   Args("", "", "", " damaged ")) }

DecideReturnRequests(op) ==
    { Request(op, User("adm"), id, NoBody, Args("", "", "", reason)) :
        id \in IdsHeld, reason \in IF op = "rejectReturn" THEN {"", "torn"} ELSE {""} }
    \cup { Request(op, User("u1"), id, NoBody, NoArgs) : id \in IdsHeld }
    \cup { Request(op, User("adm"), IdMissing, NoBody, NoArgs) }

NextReturn ==
    \/ Len(orders) < MaxReturnOrders /\ \E r \in ReturnCreateRequests : CreateOrder(r)
    \/ \E r \in ReturnStatusRequests : SetStatus(r)
    \/ \E r \in ReturnAdminUpdateRequests : AdminUpdate(r)
    \/ \E r \in ReturnCancelRequests : Cancel(r)
    \/ \E r \in RequestReturnRequests : RequestReturn(r)
    \/ \E r \in DecideReturnRequests("approveReturn") : ApproveReturn(r)
    \/ \E r \in DecideReturnRequests("rejectReturn") : RejectReturn(r)

SpecReturn == InitRace /\ [][NextReturn]_vars

----------------------------------------------------------------------------
(* Properties of the return lifecycle *)

\* C12: a return request on an existing order succeeds only when the order's
\* status is delivered; with any other status returnStatus and returnReason
\* stay as they were and the owner, giving a reason, is answered 400 (return
\* only for delivered orders).
C12_ReturnOnlyWhenDelivered ==
    [][(req'.op = "requestReturn" /\ req'.id \in 1..Len(orders)) =>
        LET before == orders[req'.id]
            after == orders'[req'.id]
        IN  /\ res'.code = 200 =>
                   (before.status = "delivered" /\ after.returnStatus = "Pending")
            /\ before.status # "delivered" =>
                /\ res'.code # 200
                /\ after.returnStatus = before.returnStatus
                /\ after.returnReason = before.returnReason
                /\ (/\ req'.user # NoUser
                    /\ req'.user._id = before.userId
                    /\ req'.args.reason = " damaged ") =>
                      /\ res'.code = 400
                      /\ res'.message =
                            "Return can only be requested for delivered orders"]_vars

\* C12 witness: the owner asked to return an order that is only shipped
C12_Witness ==
    /\ req.op = "requestReturn" /\ req.user = User("u1")
    /\ req.args.reason = " damaged "
    /\ res.code = 400
    /\ res.message = "Return can only be requested for delivered orders"
    /\ req.id \in 1..Len(orders)
    /\ orders[req.id].status = "shipped"
    /\ orders[req.id].returnStatus = "None"
    /\ orders[req.id].returnReason = ""

\* C13: approve-return and reject-return on an existing order succeed only
\* when its returnStatus is Pending; from None, Approved or Rejected they do
\* not succeed (an admin is answered 400), the orders are unchanged and no
\* e-mail is sent.
C13_DecideOnlyWhenPending ==
    [][(req'.op \in {"approveReturn", "rejectReturn"} /\ req'.id \in 1..Len(orders)) =>
        LET before == orders[req'.id]
        IN  /\ res'.code = 200 => before.returnStatus = "Pending"
            /\ before.returnStatus # "Pending" =>
                /\ res'.code # 200
                /\ orders' = orders
                /\ res'.mails = {}
                /\ req'.user.role = "admin" => res'.code = 400]_vars

\* C13 witness: an admin asked to reject a return that is already approved
C13_Witness ==
    /\ req.op = "rejectReturn" /\ req.user = User("adm")
    /\ req.args.reason = "torn"
    /\ res.code = 400 /\ res.mails = {}
    /\ req.id \in 1..Len(orders)
    /\ orders[req.id].returnStatus = "Approved"
    /\ orders[req.id].rejectionReason = ""

\* C14 (as claimed): once an order's returnStatus is Approved no request
\* changes it, and a return request on that order does not succeed.
C14_ApprovedIsTerminal ==
    [][\A n \in 1..Len(orders) :
          orders[n].returnStatus = "Approved" =>
             /\ orders'[n].returnStatus = "Approved"
             /\ (req'.op = "requestReturn" /\ req'.id = n) => res'.code # 200]_vars

\* C15 (as claimed): an order whose returnStatus is Pending, Approved or
\* Rejected has status delivered.
C15_ReturnOnlyOnDelivered ==
    \A n \in 1..Len(orders) :
        orders[n].returnStatus # "None" => orders[n].status = "delivered"

----------------------------------------------------------------------------
(* Invoices: POST /api/admin/invoices/generate *)

\* The time zones a server may run in: ticks its local time is ahead of UTC
Zones == 0..(TicksPerDay - 1)

\* now.toISOString().slice(0, 10).replace(/-/g, ''): the UTC calendar day
UtcDay(t) == t \div TicksPerDay

\* new Date(now.getFullYear(), now.getMonth(), now.getDate()): the calendar
\* day of the instant in the server's time zone
LocalDay(t, zone) == (t + zone) \div TicksPerDay

\* Invoice.countDocuments({ createdAt: { $gte: local midnight, $lt: the next } })
CountToday(invs, now, zone) ==
    Cardinality({ i \in 1..Len(invs) :
                    LocalDay(invs[i].createdAt, zone) = LocalDay(now, zone) })

\* `INV-${dateStr}-${String(countToday + 1).padStart(4, '0')}`: padStart only
\* adds zeros, so two numbers are the same text exactly when date and count agree
InvoiceNo(now, countToday) == [date |-> UtcDay(now), seq |-> countToday + 1]

NoInvoiceNo == [date |-> 0, seq |-> 0]

\* new Invoice({ orderId, invoiceNo, issuedAt: new Date(), status: 'issued' }),
\* createdAt stamped by the save
NewInvoice(orderId, invoiceNo, issuedAt, createdAt) ==
    [orderId |-> orderId, invoiceNo |-> invoiceNo, issuedAt |-> issuedAt,
     status |-> "issued", createdAt |-> createdAt]

\* The lookup finding nothing
ExistingInvoiceNone(invs, orderId) == 0

\* Invoice.findOne({ orderId }): the _id of the first invoice of the order, 0 for none
ExistingInvoice(invs, orderId) ==
    IF \E i \in 1..Len(invs) : invs[i].orderId = orderId
    THEN CHOOSE i \in 1..Len(invs) :
            /\ invs[i].orderId = orderId
            /\ \A j \in 1..(i - 1) : invs[j].orderId # orderId
    ELSE 0

\* res.json({ ok, data: { invoiceId, invoiceNo } }) and the error answers
InvoiceResponse(code, message, invoiceId, invoiceNo) ==
    [op |-> "issueInvoice", code |-> code, message |-> message, itemId |-> "",
     availableQty |-> 0, data |-> invoiceId, mails |-> {}, failed |-> {},
     invoiceNo |-> invoiceNo]

\* The answers given before the order is read: 0 when the handler goes on
IssueRefusal(r) ==
    IF AuthError(r.user, TRUE) # 0
    THEN InvoiceResponse(AuthError(r.user, TRUE), "Forbidden", 0, NoInvoiceNo)
    ELSE IF r.id = 0
    THEN InvoiceResponse(400, "Missing orderId", 0, NoInvoiceNo)
    ELSE InvoiceResponse(0, "", 0, NoInvoiceNo)

\* router.post('/invoices/generate'), each await answered before any other
\* request runs and within one tick of the clock
IssueInvoice(r) ==
    /\ req' = r
    /\ UNCHANGED <<products, procs, overlap, clock, issuers>>
    /\ IF IssueRefusal(r).code # 0
       THEN res' = IssueRefusal(r) /\ UNCHANGED <<orders, invoices>>
       ELSE IF ~Found(r.id)
       THEN /\ res' = InvoiceResponse(404, "Order not found", 0, NoInvoiceNo)
            /\ UNCHANGED <<orders, invoices>>
       ELSE IF ExistingInvoice(invoices, r.id) # 0
       THEN /\ res' = InvoiceResponse(200, "", ExistingInvoice(invoices, r.id),
                                      invoices[ExistingInvoice(invoices, r.id)].invoiceNo)
            /\ UNCHANGED <<orders, invoices>>
       ELSE LET now == clock.tick
                invoiceNo == InvoiceNo(now, CountToday(invoices, now, clock.zone))
            IN  /\ invoices' = Append(invoices, NewInvoice(r.id, invoiceNo, now, now))
                /\ orders' = [orders EXCEPT ![r.id].invoiceId = Len(invoices) + 1]
                /\ res' = InvoiceResponse(200, "", Len(invoices) + 1, invoiceNo)

\* Time passes
Tick ==
    /\ clock.tick < MaxTick
    /\ clock' = [clock EXCEPT !.tick = @ + 1]
    /\ UNCHANGED <<products, orders, req, res, procs, overlap, invoices, issuers>>

InvoiceCreateRequests ==
    { CreateRequest(User("u1"),
                    Body(<<Item("p1", "", Num(1), Num(1))>>, "Pune", "MH", GoodPin, Undef)) }

InvoiceRequests ==
    { Request("issueInvoice", User("adm"), id, NoBody, NoArgs) :
        id \in IdsHeld \cup {0, IdMissing} }
    \cup { Request("issueInvoice", User("u1"), id, NoBody, NoArgs) : id \in IdsHeld }

InitInvoice == \E zone \in Zones : InitIn(MaxStock, MaxStock, zone)

NextInvoice ==
    \/ \E r \in InvoiceCreateRequests : CreateOrder(r)
    \/ \E r \in InvoiceRequests : IssueInvoice(r)
    \/ Tick

SpecInvoice == InitInvoice /\ [][NextInvoice]_vars

\* C16: with invoice requests handled one after the other, a request for an
\* order that already has an invoice is answered with that invoice's id and
\* number and the Invoice collection is unchanged; the request that creates
\* an invoice is answered with the id and number it stored. A second call
\* therefore returns what the first returned, whatever was issued in between.
C16_IssueInvoiceIdempotent ==
    [][(req'.op = "issueInvoice" /\ req'.user.role = "admin"
            /\ req'.id \in 1..Len(orders)) =>
        LET held == { i \in 1..Len(invoices) : invoices[i].orderId = req'.id }
        IN  IF held # {}
            THEN /\ invoices' = invoices
                 /\ res'.code = 200
                 /\ res'.data \in held
                 /\ res'.invoiceNo = invoices[res'.data].invoiceNo
            ELSE /\ Len(invoices') = Len(invoices) + 1
                 /\ \A i \in 1..Len(invoices) : invoices'[i] = invoices[i]
                 /\ res'.code = 200
                 /\ res'.data = Len(invoices')
                 /\ invoices'[res'.data].orderId = req'.id
                 /\ res'.invoiceNo = invoices'[res'.data].invoiceNo]_vars

\* C16 witness: order 1 got its invoice, then order 2, on a later day order 1
\* was asked for again and answered with its first invoice
C16_Witness ==
    /\ req.op = "issueInvoice" /\ req.id = 1
    /\ Len(invoices) = 2
    /\ invoices[1].orderId = 1 /\ invoices[2].orderId = 2
    /\ res.code = 200 /\ res.data = 1 /\ res.invoiceNo = invoices[1].invoiceNo
    /\ orders[1].invoiceId = 1
    /\ UtcDay(clock.tick) > UtcDay(invoices[1].createdAt)

----------------------------------------------------------------------------
(* Invoice handlers that interleave at their awaits, within one tick of the clock *)

IssueStep(p, pc) ==
    /\ issuers[p].pc = pc
    /\ UNCHANGED <<products, procs, overlap, clock>>

IssueAnswer(p, response) ==
    /\ req' = issuers[p].r
    /\ res' = response
    /\ issuers' = [issuers EXCEPT ![p] = IdleIssuer]

\* Lines 150-153: the checks before the first await, Order.findById
IssueBegin(p, r) ==
    /\ issuers[p].pc = "idle"
    /\ UNCHANGED <<products, procs, overlap, clock, orders, invoices>>
    /\ IF IssueRefusal(r).code # 0
       THEN req' = r /\ res' = IssueRefusal(r) /\ UNCHANGED issuers
       ELSE /\ issuers' = [issuers EXCEPT ![p] = [IdleIssuer EXCEPT !.pc = "order", !.r = r]]
            /\ UNCHANGED <<req, res>>

\* findById resolves (line 153-154); next await Invoice.findOne
IssueFindOrder(p) ==
    /\ IssueStep(p, "order")
    /\ UNCHANGED <<orders, invoices>>
    /\ IF ~Found(issuers[p].r.id)
       THEN IssueAnswer(p, InvoiceResponse(404, "Order not found", 0, NoInvoiceNo))
       ELSE /\ issuers' = [issuers EXCEPT ![p].pc = "invoice"]
            /\ UNCHANGED <<req, res>>

\* findOne resolves (lines 157-160); now = new Date(); next await countDocuments
IssueFindInvoice(p) ==
    LET found == ExistingInvoice(invoices, issuers[p].r.id)
    IN  /\ IssueStep(p, "invoice")
        /\ UNCHANGED <<orders, invoices>>
        /\ IF found # 0
           THEN IssueAnswer(p, InvoiceResponse(200, "", found, invoices[found].invoiceNo))
           ELSE /\ issuers' = [issuers EXCEPT ![p].pc = "count", ![p].now = clock.tick]
                /\ UNCHANGED <<req, res>>

\* countDocuments resolves (lines 165-178); next await invoice.save
IssueCount(p) ==
    /\ IssueStep(p, "count")
    /\ issuers' = [issuers EXCEPT
                      ![p].pc = "save",
                      ![p].countToday = CountToday(invoices, issuers[p].now, clock.zone),
                      ![p].issuedAt = clock.tick]
    /\ UNCHANGED <<orders, invoices, req, res>>

\* invoice.save resolves (line 180); next await order.save
IssueSave(p) ==
    LET me == issuers[p]
    IN  /\ IssueStep(p, "save")
        /\ invoices' = Append(invoices,
                              NewInvoice(me.r.id, InvoiceNo(me.now, me.countToday),
                                         me.issuedAt, clock.tick))
        /\ issuers' = [issuers EXCEPT ![p].pc = "link", ![p].invoiceId = Len(invoices) + 1]
        /\ UNCHANGED <<orders, req, res>>

\* order.save resolves and the handler answers (lines 183-186)
IssueLink(p) ==
    LET me == issuers[p]
    IN  /\ IssueStep(p, "link")
        /\ orders' = [orders EXCEPT ![me.r.id].invoiceId = me.invoiceId]
        /\ IssueAnswer(p, InvoiceResponse(200, "", me.invoiceId,
                                          invoices[me.invoiceId].invoiceNo))
        /\ UNCHANGED invoices

RaceInvoiceRequests ==
    { Request("issueInvoice", User("adm"), id, NoBody, NoArgs) :
        id \in IdsHeld \cup {IdMissing} }

NextInvoiceRace ==
    \/ \E r \in InvoiceCreateRequests : CreateOrder(r)
    \/ \E p \in ProcIds :
          \/ \E r \in RaceInvoiceRequests : IssueBegin(p, r)
          \/ IssueFindOrder(p)
          \/ IssueFindInvoice(p)
          \/ IssueCount(p)
          \/ IssueSave(p)
          \/ IssueLink(p)

SpecInvoiceRace == InitRace /\ [][NextInvoiceRace]_vars

\* C17 (as claimed): no order has more than one invoice.
C17_OneInvoicePerOrder ==
    \A n \in 1..Len(orders) :
        Cardinality({ i \in 1..Len(invoices) : invoices[i].orderId = n }) <= 1

\* C18 (as claimed): the k-th invoice created on a day carries that day and
\* the suffix k, so the invoices of two different orders never carry the
\* same invoiceNo.
C18_InvoiceNoUnique ==
    \A i, j \in 1..Len(invoices) :
        invoices[i].orderId # invoices[j].orderId =>
            invoices[i].invoiceNo # invoices[j].invoiceNo

----------------------------------------------------------------------------
(* Properties of the status e-mails *)

\* The status e-mail of an order, as handed to the e-mail service
StatusMailOf(id) ==
    { m \in res'.mails : m.kind = "statusUpdate" /\ m.order = id }

\* C19 (as claimed): a successful PUT /orders/:id/status, PUT /orders/:id or
\* PUT /orders/:id/admin-update hands a status e-mail for the order's user to
\* the e-mail service exactly when it changed the order's status to shipped
\* or delivered and the order has a user with an e-mail address.
C19_StatusMailExactlyOnChange ==
    [][(/\ req'.op \in {"setStatus", "putOrder", "adminUpdate"}
        /\ res'.code = 200
        /\ req'.id \in 1..Len(orders)) =>
        LET before == orders[req'.id]
            after == orders'[req'.id]
        IN  StatusMailOf(req'.id) # {} <=>
               /\ after.status \in {"shipped", "delivered"}
               /\ after.status # before.status
               /\ Populated(before).email # ""]_vars

----------------------------------------------------------------------------
(* Further properties of the order lifecycle *)

\* C21: for every status s an existing order has and every status t of
\* pending, paid, shipped, delivered, cancelled, an admin's
\* PUT /orders/:id/status with t is answered 200 and leaves the order's
\* status equal to t; no order between the statuses is enforced.
C21_AnyStatusToAnyStatus ==
    [][(/\ req'.op = "setStatus"
        /\ req'.user.role = "admin"
        /\ req'.id \in 1..Len(orders)
        /\ req'.args.status \in {"pending", "paid", "shipped", "delivered", "cancelled"}) =>
        /\ res'.code = 200
        /\ orders'[req'.id].status = req'.args.status
        /\ Len(orders') = Len(orders)]_vars

\* C21 witness: an order that its owner had cancelled is pending again after
\* an admin's status update
C21_Witness ==
    /\ req.op = "setStatus" /\ req.args.status = "pending"
    /\ res.code = 200
    /\ req.id \in 1..Len(orders)
    /\ orders[req.id].status = "pending"
    /\ orders[req.id].cancellationReason = "late"

----------------------------------------------------------------------------
(* GET /orders/:id *)

\* The test without req.user &&: no user and no userId read as the same text
MayReadUnguarded(user, doc) == user._id = doc.userId \/ user.role = "admin"

\* req.user && (String(req.user._id) === String(doc.userId) || req.user.role === 'admin')
MayRead(user, doc) ==
    user # NoUser /\ (user._id = doc.userId \/ user.role = "admin")

\* router.get('/:id'): authOptional lets every caller through
GetOrder(r) ==
    /\ UNCHANGED orders
    /\ IF ~Found(r.id)
       THEN Answer(r, Response("getOrder", 404, "Not found", "", 0, 0))
       ELSE IF MayRead(r.user, orders[r.id])
       THEN Answer(r, Response("getOrder", 200, "", "", 0, r.id))
       ELSE Answer(r, Response("getOrder", 403, "Forbidden", "", 0, 0))

----------------------------------------------------------------------------
(* Every route, one request at a time *)

FrameCreateRequests ==
    { CreateRequest(u, Body(<<Item("p1", "", Num(1), Num(1))>>, "Pune", "MH", GoodPin, Undef)) :
        u \in {NoUser, User("u1")} }

FrameRequests(op) ==
    { Request(op, u, id, NoBody, a) :
        id \in IdsHeld,
        u \in CASE op \in {"cancel", "requestReturn"} -> {User("u1")}
                [] op = "getOrder" -> Users \cup {NoUser}
                [] OTHER -> {User("adm")},
        a \in CASE op = "setStatus" -> {Args("delivered", "", "", "")}
                [] op = "putOrder" -> {Args("completed", "", "", "")}
                [] op = "adminUpdate" -> {Args("shipped", " T1 ", "Approved", "")}
                [] op = "cancel" -> {Args("", "", "", "late")}
                [] op = "requestReturn" -> {Args("", "", "", " damaged ")}
                [] op = "rejectReturn" -> {Args("", "", "", "torn")}
                [] OTHER -> {NoArgs} }
    \cup (IF op = "getOrder"
          THEN {Request(op, User("adm"), IdMissing, NoBody, NoArgs)} ELSE {})

NextFrame ==
    \/ Len(orders) < MaxFrameOrders /\ \E r \in FrameCreateRequests : CreateOrder(r)
    \/ \E r \in FrameRequests("setStatus") : SetStatus(r)
    \/ \E r \in FrameRequests("putOrder") : PutOrder(r)
    \/ \E r \in FrameRequests("adminUpdate") : AdminUpdate(r)
    \/ \E r \in FrameRequests("cancel") : Cancel(r)
    \/ \E r \in FrameRequests("requestReturn") : RequestReturn(r)
    \/ \E r \in FrameRequests("approveReturn") : ApproveReturn(r)
    \/ \E r \in FrameRequests("rejectReturn") : RejectReturn(r)
    \/ \E r \in FrameRequests("issueInvoice") : IssueInvoice(r)
    \/ \E r \in FrameRequests("getOrder") : GetOrder(r)

SpecFrame == InitRace /\ [][NextFrame]_vars

\* C26: GET /orders/:id on an existing order is answered 200 with the order
\* only when the caller is its owning user or an admin; every other caller
\* (another user, no user, anyone but an admin on an order without userId) is
\* answered 403 without order data.
C26_ReadOnlyByOwnerOrAdmin ==
    (req.op = "getOrder" /\ req.id \in 1..Len(orders)) =>
        LET order == orders[req.id]
            entitled ==
                \/ req.user.role = "admin"
                \/ req.user # NoUser /\ order.userId # "" /\ req.user._id = order.userId
        IN  IF entitled
            THEN res.code = 200 /\ res.data = req.id
            ELSE res.code = 403 /\ res.data = 0

\* C26 witness: a caller without a user asked for an order placed without one
C26_Witness ==
    /\ req.op = "getOrder" /\ req.user = NoUser
    /\ req.id \in 1..Len(orders)
    /\ orders[req.id].userId = ""
    /\ res.code = 403 /\ res.data = 0

\* C22: only POST /orders changes stock: a request of any other route
\* (status updates, admin-update, cancel, the return routes, invoice
\* generation, reading an order) leaves every product document, and so every
\* scalar and per-size counter, as it was.
C22_StockChangedByCreateOnly ==
    [][req'.op # "createOrder" => products' = products]_vars

\* C22 witness: the owner cancelled the order; its unit is still off the shelf
C22_Witness ==
    /\ req.op = "cancel" /\ res.code = 200
    /\ req.id \in 1..Len(orders)
    /\ orders[req.id].status = "cancelled"
    /\ RequestedQty(orders[req.id].items[1]) = 1
    /\ products.p1.stock = MaxStock - Len(orders)

\* C23: the line items, the total and the customer snapshot of an order stay
\* as they were stored at creation under every request, and no request
\* removes an order from the collection.
C23_SnapshotFixedAtCreation ==
    [][/\ Len(orders') >= Len(orders)
       /\ \A n \in 1..Len(orders) :
            /\ orders'[n].items = orders[n].items
            /\ orders'[n].total = orders[n].total
            /\ orders'[n].name = orders[n].name
            /\ orders'[n].phone = orders[n].phone
            /\ orders'[n].address = orders[n].address
            /\ orders'[n].city = orders[n].city
            /\ orders'[n].state = orders[n].state
            /\ orders'[n].pincode = orders[n].pincode]_vars

\* C23 witness: an order that was delivered, tracked, returned and invoiced
\* still carries what it was created with
C23_Witness ==
    /\ Len(orders) >= 1
    /\ orders[1].status = "delivered"
    /\ orders[1].trackingNumber = "T1"
    /\ orders[1].returnStatus = "Rejected"
    /\ orders[1].invoiceId # 0
    /\ orders[1].items = <<Item("p1", "", Num(1), Num(1))>>
    /\ orders[1].total = 1
    /\ orders[1].city = "Pune" /\ orders[1].pincode = GoodPin

----------------------------------------------------------------------------
(* Further properties of POST /orders *)

\* C24: a created order has the status of the request when that is one of
\* the texts pending, paid, shipped, delivered, cancelled, and pending for
\* every other status value (none, another text, not a text).
C24_InitialStatus ==
    [][Answered(200) =>
        LET st == req'.body.status
            created == orders'[Len(orders')]
        IN  /\ Len(orders') = Len(orders) + 1
            /\ created.status =
                  IF st.k = "str"
                     /\ st.s \in {"pending", "paid", "shipped", "delivered", "cancelled"}
                  THEN st.s ELSE "pending"]_vars

\* C24 witness: an order asked for with status refunded was created pending
C24_Witness ==
    /\ res.op = "createOrder" /\ res.code = 200
    /\ req.body.status = [k |-> "str", s |-> "refunded"]
    /\ Len(orders) = 1
    /\ orders[1].status = "pending"

\* C25 (as claimed): an admin's status update with the alias processing
\* sets the order's status to paid, and completed sets it to delivered, on
\* PUT /orders/:id/status and on PUT /orders/:id.
C25_AliasesOnBothRoutes ==
    [][(/\ req'.op \in {"setStatus", "putOrder"}
        /\ req'.user.role = "admin"
        /\ req'.id \in 1..Len(orders)
        /\ req'.args.status \in {"processing", "completed"}) =>
        /\ res'.code = 200
        /\ orders'[req'.id].status =
              IF req'.args.status = "processing" THEN "paid" ELSE "delivered"]_vars

----------------------------------------------------------------------------
(* Order handlers that interleave at their awaits.  procs[p].doc holds the  *)
(* order document the handler read with findById and has modified since.    *)

\* A handler reaches its first await
HandlerBegin(p, r, pc) ==
    /\ procs[p].pc = "idle"
    /\ procs' = [procs EXCEPT ![p] = [IdleProc EXCEPT !.pc = pc, !.r = r]]
    /\ overlap' = (overlap \/ \E q \in ProcIds \ {p} : procs[q].pc # "idle")
    /\ UNCHANGED <<products, orders, req, res, invoiceVars>>

\* A handler is refused by the middleware in front of it
HandlerRefused(p, r, response) ==
    /\ procs[p].pc = "idle"
    /\ req' = r
    /\ res' = response
    /\ UNCHANGED <<products, orders, procs, overlap, invoiceVars>>

\* A handler goes on to its next await holding the document findById gave it
HandlerAwait(p, pc, doc) ==
    /\ procs' = [procs EXCEPT ![p].pc = pc, ![p].doc = doc]
    /\ UNCHANGED <<products, req, res, overlap, invoiceVars>>

\* A handler answers and ends
HandlerAnswer(p, response) ==
    /\ req' = procs[p].r
    /\ res' = response
    /\ procs' = [procs EXCEPT ![p] = IdleProc]
    /\ UNCHANGED <<products, overlap, invoiceVars>>

\* The e-mail service delivers or fails, then the handler answers and ends
HandlerAnswerSending(p, response, mails) ==
    \E sent \in BOOLEAN : HandlerAnswer(p, AfterSend(response, mails, sent))

\* order.save() after order.status = status: the status is written when the
\* assignment changed what the handler read, over whatever the collection
\* holds by then
SavedStatus(stored, read, status) ==
    IF status # read.status THEN [stored EXCEPT !.status = status] ELSE stored

\* Lines 211-216 of cancel: requireAuth, then await Order.findById
CancelBegin(p, r) ==
    IF AuthError(r.user, FALSE) # 0
    THEN HandlerRefused(p, r, Response("cancel", AuthError(r.user, FALSE),
                                       "Unauthorized", "", 0, 0))
    ELSE HandlerBegin(p, r, "cancelFind")

\* findById resolves: lines 217-233 up to await order.save()
CancelFind(p) ==
    LET me == procs[p]
    IN  /\ me.pc = "cancelFind"
        /\ UNCHANGED orders
        /\ IF ~Found(me.r.id)
           THEN HandlerAnswer(p, Response("cancel", 404, "Order not found", "", 0, 0))
           ELSE IF NotOwnerNorAdmin(orders[me.r.id], me.r.user)
           THEN HandlerAnswer(p, Response("cancel", 403, "Forbidden", "", 0, 0))
           ELSE IF ~IsCancellable(orders[me.r.id].status)
           THEN HandlerAnswer(p, Response("cancel", 400,
                                  "Order cannot be cancelled in current status", "", 0, 0))
           ELSE HandlerAwait(p, "cancelSave", orders[me.r.id])

\* order.save() resolves and cancel answers (lines 232-236)
CancelSave(p) ==
    LET me == procs[p]
    IN  /\ me.pc = "cancelSave"
        /\ orders' = [orders EXCEPT
                         ![me.r.id] =
                            [SavedStatus(@, me.doc, "cancelled") EXCEPT
                                !.cancellationReason =
                                    IF me.r.args.reason # "" THEN me.r.args.reason ELSE @]]
        /\ HandlerAnswer(p, Response("cancel", 200, "", "", 0, me.r.id))

\* Lines 163-169 of PUT /:id/status: the checks, then await findById
StatusBegin(p, r) ==
    IF AuthError(r.user, TRUE) # 0
    THEN HandlerRefused(p, r, Response("setStatus", AuthError(r.user, TRUE),
                                       "Forbidden", "", 0, 0))
    ELSE IF r.args.status = ""
    THEN HandlerRefused(p, r, Response("setStatus", 400, "Missing status", "", 0, 0))
    ELSE IF ~IsAllowedStatus(r.args.status)
    THEN HandlerRefused(p, r, Response("setStatus", 400, "Invalid status", "", 0, 0))
    ELSE HandlerBegin(p, r, "statusFind")

\* findById resolves: lines 170-173 up to await order.save()
StatusFind(p) ==
    LET me == procs[p]
    IN  /\ me.pc = "statusFind"
        /\ UNCHANGED orders
        /\ IF ~Found(me.r.id)
           THEN HandlerAnswer(p, Response("setStatus", 404, "Not found", "", 0, 0))
           ELSE HandlerAwait(p, "statusSave", orders[me.r.id])

\* order.save() resolves, the e-mail is sent and the handler answers
\* (lines 174-184)
StatusSave(p) ==
    LET me == procs[p]
    IN  /\ me.pc = "statusSave"
        /\ orders' = [orders EXCEPT ![me.r.id] = SavedStatus(@, me.doc, me.r.args.status)]
        /\ HandlerAnswerSending(p, Response("setStatus", 200, "", "", 0, me.r.id),
                                StatusMails(me.doc, me.r.id, me.r.args.status,
                                            me.doc.status))

CancelRaceCreateRequests ==
    { CreateRequest(User("u1"),
                    Body(<<Item("p1", "", Num(1), Num(1))>>, "Pune", "MH", GoodPin, Undef)) }

CancelRaceRequests ==
    { Request("cancel", u, id, NoBody, Args("", "", "", "late")) :
        u \in {User("u1"), User("u2"), NoUser}, id \in IdsHeld \cup {IdMissing} }

StatusRaceRequests ==
    { Request("setStatus", User("adm"), id, NoBody, Args(st, "", "", "")) :
        id \in IdsHeld \cup {IdMissing}, st \in {"shipped", "pending", "refunded"} }
    \cup { Request("setStatus", User("u1"), id, NoBody, Args("shipped", "", "", "")) :
             id \in IdsHeld }

NextCancelRace ==
    \/ Len(orders) < MaxRaceOrders /\ \E r \in CancelRaceCreateRequests : CreateOrder(r)
    \/ \E p \in ProcIds :
          \/ \E r \in CancelRaceRequests : CancelBegin(p, r)
          \/ CancelFind(p)
          \/ CancelSave(p)
          \/ \E r \in StatusRaceRequests : StatusBegin(p, r)
          \/ StatusFind(p)
          \/ StatusSave(p)

SpecCancelRace == InitRace /\ [][NextCancelRace]_vars

\* C27 (as claimed): whenever cancel writes cancelled to an order, the
\* status the order has in the collection at that moment is pending,
\* cod_pending or pending_verification.
C27_CancelWritesOverCancellable ==
    [][\A p \in ProcIds :
          (procs[p].pc = "cancelSave" /\ procs'[p].pc = "idle") =>
             orders[procs[p].r.id].status
                \in {"pending", "cod_pending", "pending_verification"}]_vars

----------------------------------------------------------------------------
(* Return decisions that interleave at their awaits *)

\* order.save() after order.returnStatus = ...: written when the assignment
\* changed what the handler read, over whatever the collection holds by then
SavedReturnStatus(stored, read, returnStatus) ==
    IF returnStatus # read.returnStatus
    THEN [stored EXCEPT !.returnStatus = returnStatus] ELSE stored

\* Lines 556-559 and 582-586: requireAuth, requireAdmin, then await findById
DecideBegin(p, r) ==
    IF AuthError(r.user, TRUE) # 0
    THEN HandlerRefused(p, r, Response(r.op, AuthError(r.user, TRUE), "Forbidden",
                                       "", 0, 0))
    ELSE HandlerBegin(p, r, IF r.op = "approveReturn" THEN "approveFind" ELSE "rejectFind")

\* findById resolves: lines 560-566 and 587-594 up to await order.save()
DecideFind(p) ==
    LET me == procs[p]
    IN  /\ me.pc \in {"approveFind", "rejectFind"}
        /\ UNCHANGED orders
        /\ IF ~Found(me.r.id)
           THEN HandlerAnswer(p, Response(me.r.op, 404, "Order not found", "", 0, 0))
           ELSE IF NotPending(orders[me.r.id])
           THEN HandlerAnswer(p, Response(me.r.op, 400, "Return request is not pending",
                                          "", 0, 0))
           ELSE HandlerAwait(p, IF me.pc = "approveFind" THEN "approveSave"
                                ELSE "rejectSave",
                             orders[me.r.id])

\* approve-return: order.save() resolves, the e-mail is sent, the handler
\* answers (lines 567-574)
ApproveSave(p) ==
    LET me == procs[p]
    IN  /\ me.pc = "approveSave"
        /\ orders' = [orders EXCEPT ![me.r.id] = SavedReturnStatus(@, me.doc, "Approved")]
        /\ HandlerAnswerSending(p, Response("approveReturn", 200,
                                            "Return request approved", "", 0, me.r.id),
                                ReturnMails(me.doc, me.r.id, "Approved", ""))

\* reject-return: order.save() resolves, the e-mail is sent, the handler
\* answers (lines 594-602)
RejectSave(p) ==
    LET me == procs[p]
        reason == me.r.args.reason
    IN  /\ me.pc = "rejectSave"
        /\ orders' = [orders EXCEPT
                         ![me.r.id] =
                            [SavedReturnStatus(@, me.doc, "Rejected") EXCEPT
                                !.rejectionReason = IF reason # "" THEN reason ELSE @]]
        /\ HandlerAnswerSending(p, Response("rejectReturn", 200,
                                            "Return request rejected", "", 0, me.r.id),
                                ReturnMails(me.doc, me.r.id, "Rejected", reason))

ReturnRaceRequests ==
    { Request("setStatus", User("adm"), id, NoBody, Args("delivered", "", "", "")) :
        id \in IdsHeld }
    \cup { Request("requestReturn", User("u1"), id, NoBody, Args("", "", "", " damaged ")) :
             id \in IdsHeld }

DecideRaceRequests ==
    { Request("approveReturn", u, id, NoBody, NoArgs) :
        u \in {User("adm"), User("u1")}, id \in IdsHeld \cup {IdMissing} }
    \cup { Request("rejectReturn", User("adm"), id, NoBody, Args("", "", "", reason)) :
             id \in IdsHeld, reason \in {"", "torn"} }

NextReturnRace ==
    \/ Len(orders) < MaxRaceOrders /\ \E r \in CancelRaceCreateRequests : CreateOrder(r)
    \/ \E r \in ReturnRaceRequests :
          \/ r.op = "setStatus" /\ SetStatus(r)
          \/ r.op = "requestReturn" /\ RequestReturn(r)
    \/ \E p \in ProcIds :
          \/ \E r \in DecideRaceRequests : DecideBegin(p, r)
          \/ DecideFind(p)
          \/ ApproveSave(p)
          \/ RejectSave(p)

SpecReturnRace == InitRace /\ [][NextReturnRace]_vars

\* C28 (as claimed): for one pending return request at most one outcome
\* e-mail is sent: a return decision never sends its e-mail when the answer
\* before it, with no new return request in between, was a return decision
\* on the same order that sent its e-mail.
C28_OneOutcomeMail ==
    [][\A p \in ProcIds :
          (/\ procs[p].pc \in {"approveSave", "rejectSave"}
           /\ procs'[p].pc = "idle"
           /\ res'.mails # {}) =>
             ~(/\ res.op \in {"approveReturn", "rejectReturn"}
               /\ res.mails # {}
               /\ res.data = res'.data)]_vars

----------------------------------------------------------------------------
(* Which line items POST /orders checks, and in which direction counters move *)

\* C29 (as claimed): createOrder never increases a stock counter, whatever the
\* qty of its line items (zero, missing or negative).
C29_CountersNeverIncrease ==
    [][req'.op = "createOrder" =>
        \A key \in CounterKeys :
            CounterValue(products', key) <= CounterValue(products, key)]_vars

\* C30 (as claimed): a created order whose line item names a product with
\* per-size tracking has had a counter of that product checked and
\* decremented, also when the line item carries no size or a size without a
\* counter.
C30_EveryPerSizeItemChecked ==
    [][Answered(200) =>
        \A i \in 1..Len(req'.body.items) :
            LET item == req'.body.items[i]
            IN  (NamesProduct(products, item)
                 /\ products[ItemProductId(item)].trackInventoryBySize) =>
                    \E key \in CounterKeys :
                        /\ key[1] = ItemProductId(item)
                        /\ CounterValue(products', key) < CounterValue(products, key)]_vars

\* C30 (amended): a line item naming an existing product is checked and
\* decremented exactly when the product keeps a counter for it (the scalar
\* stock, or the counter of the item's size). In a created order every such
\* item found its counter at least as large as the units it takes, after the
\* items before it, and every counter went down by the units of those items
\* only; a line item of a per-size product with no size or a size without a
\* counter takes nothing and never causes a 409.
C30_CheckedWhenCounterExists ==
    [][/\ Answered(200) =>
           \A key \in CounterKeys :
               /\ CounterValue(products', key) =
                      CounterValue(products, key)
                      - SumUnits(products, req'.body.items, Len(req'.body.items), key)
               /\ \A n \in 1..Len(req'.body.items) :
                      KeyOf(products, req'.body.items[n]) = key =>
                         CounterValue(products, key)
                         - SumUnits(products, req'.body.items, n - 1, key)
                            >= UnitsTaken(req'.body.items[n])
       /\ Answered(409) =>
           KeyOf(products, req'.body.items[FailedIndex]) # <<"", "">>]_vars

\* C30 witness: an order was created from a line item of the per-size product
\* that carries no size, next to one checked against the scalar stock; no
\* size counter moved
C30_Witness ==
    /\ res.op = "createOrder" /\ res.code = 200
    /\ req.body.items = <<Item("p2", "", Num(1), Num(1)), Item("p1", "", Num(1), Num(1))>>
    /\ Len(orders) = 1
    /\ products.p1.stock = 0
    /\ CounterValue(products, <<"p2", "M">>) = MaxStock
    /\ CounterValue(products, <<"p2", "S">>) = MaxStock

====
